---- MODULE Spec2Model ----
(***************************************************************************)
(* The pomodoro phase machine (src/src/pomodoro.rs) driven by the two      *)
(* start functions of the repository: runtime.rs start (an advancing task  *)
(* that re-invokes run forever, a signal-consuming task, and a join on     *)
(* the latter before the Client is returned) and pomodoro.rs start (one    *)
(* task that drains the channel until it is closed and then calls run      *)
(* once).  Every guarded access of the code is one step; the only field    *)
(* written by more than one task is the paused flag.                       *)
(*                                                                         *)
(* The sending end of the channel exists from the call of start on.  The   *)
(* controller is modelled as able to send on it from then on, so that the  *)
(* behaviour of the two tasks under signals can be examined whether or not *)
(* start has handed the Client out.                                        *)
(***************************************************************************)
EXTENDS Integers, Sequences, FiniteSets, TLC

----------------------------------------------------------------------------
(* Bounds of the model *)

MaxLifespan == 2
MaxTick == 1
MaxInterval == 2
MaxUntil == 3
MaxCycles == 8
MaxTicks == 3

(* Program constants *)

Capacity == 2

U8Max == 255

----------------------------------------------------------------------------
(* Types *)

Status == {"Working", "ShortBreak", "LongBreak"}

RuntimeSignal == {"Abort", "Pause", "Resume"}

PomodoroSignal == {"Resume", "Pause"}

Entries == {"runtime", "pomodoro"}

InRun == {"while", "body", "sleep", "tick", "cycle", "autopause"}

VARIABLES
    entry,                \* which start function drives the machine
    lifespan,             \* Timer.lifespan of each phase
    tick_range,           \* Timer.tick_range of each phase
    long_break_interval,
    continuous,
    until,                \* {} for None, {n} for Some(n)
    horizon,              \* how many phase completions the model follows
    elapsed,              \* Timer.elapsed of each phase
    counter,              \* Counter: completions of each phase
    current_status,
    paused,
    pc,                   \* position of the task that calls run
    sig,                  \* position of the signal-consuming loop
    queue,                \* the mpsc channel's buffer
    caller,               \* what the caller of start has: nothing yet, the Client, or dropped it
    sendErr,              \* a send has returned Err (receiver gone)
    signalled,            \* history: a signal has been put on the channel
    pauseSteps,           \* history: ticks and increments since a Pause was consumed during run
                          \*          with no Resume consumed after it (-1: no such Pause)
    runTicks,             \* history: ticks since the signal task set paused during this
                          \*          invocation of run, the flag not cleared since (-1: none)
    cyclesThisRun,        \* history: phase completions in the current invocation of run
    timerTicks,           \* history: direct calls of Timer::tick on each timer since its reset
    lastOp                \* history: the last direct call of pause() or resume(), and
                          \*          whether the flag already had the value it sets

config == <<entry, lifespan, tick_range, long_break_interval, continuous, until, horizon>>

machine == <<elapsed, counter, current_status>>

history == <<signalled, pauseSteps, runTicks, cyclesThisRun, timerTicks, lastOp>>

vars == <<config, machine, paused, pc, sig, queue, caller, sendErr, history>>

----------------------------------------------------------------------------
(* Timer, Counter and the phase transition logic *)

Min(a, b) == IF a < b THEN a ELSE b

initial_duration == 0

is_done_Strict(st) == elapsed[st] > lifespan[st]

is_done(st) == elapsed[st] >= lifespan[st]

tick(st) == [elapsed EXCEPT ![st] = @ + tick_range[st]]

reset_Nothing(st) == elapsed

reset(st) == [elapsed EXCEPT ![st] = initial_duration]

\* lock.get() + 1 on a u8: the sum wraps in a build without overflow checks
\* (a build with them panics instead, see CounterOverflow)
increment_current_status_counter(st) ==
    [counter EXCEPT ![st] = (@ + 1) % (U8Max + 1)]

is_consumed_Late == \E u \in until : counter["Working"] > u

is_consumed == \E u \in until : counter["Working"] >= u

is_active == ~paused

resume_Toggles == paused' = ~paused

resume == paused' = FALSE

pause == paused' = TRUE

current_timer == current_status

DivisorIsZero(st, cnt) ==
    /\ is_done(st)
    /\ st # "LongBreak"
    /\ cnt["Working"] > 0
    /\ long_break_interval = 0

reached_long_break_SkipsFirst(cnt) ==
    LET v == cnt["Working"]
    IN  v > 1 /\ v % long_break_interval = 0

reached_long_break(cnt) ==
    LET v == cnt["Working"]
    IN  v > 0 /\ v % long_break_interval = 0

next_status_LongBreakAgain(st, cnt) ==
    IF ~is_done(st) THEN st
    ELSE IF reached_long_break(cnt) THEN "LongBreak"
    ELSE CASE st = "Working" -> "ShortBreak"
           [] st = "ShortBreak" -> "Working"
           [] st = "LongBreak" -> "Working"

next_status_BreakAfterBreak(st, cnt) ==
    IF ~is_done(st) THEN st
    ELSE IF st # "LongBreak" /\ reached_long_break(cnt) THEN "LongBreak"
    ELSE CASE st = "Working" -> "ShortBreak"
           [] st = "ShortBreak" -> "Working"
           [] st = "LongBreak" -> "ShortBreak"

next_status(st, cnt) ==
    IF ~is_done(st) THEN st
    ELSE IF st # "LongBreak" /\ reached_long_break(cnt) THEN "LongBreak"
    ELSE CASE st = "Working" -> "ShortBreak"
           [] st = "ShortBreak" -> "Working"
           [] st = "LongBreak" -> "Working"

LoopCondition_IgnoresPause == ~is_consumed

LoopCondition_IgnoresCap == is_active

LoopCondition == ~is_consumed /\ is_active

AfterCycle_NeverPauses == "while"

AfterCycle == IF continuous THEN "while" ELSE "autopause"

CompletedCycles == counter["Working"] + counter["ShortBreak"] + counter["LongBreak"]

----------------------------------------------------------------------------
(* History bookkeeping *)

Bump(h) == IF h >= 0 THEN Min(h + 1, 2) ELSE h

TickHistory ==
    /\ pauseSteps' = Bump(pauseSteps)
    /\ runTicks' = Bump(runTicks)
    /\ UNCHANGED <<signalled, cyclesThisRun, timerTicks, lastOp>>

CycleHistory ==
    /\ pauseSteps' = Bump(pauseSteps)
    /\ cyclesThisRun' = Min(cyclesThisRun + 1, 2)
    /\ UNCHANGED <<signalled, runTicks, timerTicks, lastOp>>

----------------------------------------------------------------------------
(* Pomodoro::run, one step per guarded access or suspension point *)

Call ==
    /\ pc = "call"
    /\ resume
    /\ pc' = "while"
    /\ runTicks' = -1
    /\ cyclesThisRun' = 0
    /\ UNCHANGED <<config, machine, sig, queue, caller, sendErr,
                   signalled, pauseSteps, timerTicks, lastOp>>

WhileCheck ==
    /\ pc = "while"
    /\ pc' = IF LoopCondition THEN "body" ELSE "returned"
    /\ UNCHANGED <<config, machine, paused, sig, queue, caller, sendErr, history>>

DoneCheck_AlwaysCycle ==
    /\ pc = "body"
    /\ pc' = "cycle"
    /\ UNCHANGED <<config, machine, paused, sig, queue, caller, sendErr, history>>

DoneCheck_OneTickLate ==
    /\ pc = "body"
    /\ pc' = IF elapsed[current_timer] <= lifespan[current_timer] THEN "sleep" ELSE "cycle"
    /\ UNCHANGED <<config, machine, paused, sig, queue, caller, sendErr, history>>

DoneCheck ==
    /\ pc = "body"
    /\ pc' = IF ~is_done(current_timer) THEN "sleep" ELSE "cycle"
    /\ UNCHANGED <<config, machine, paused, sig, queue, caller, sendErr, history>>

Sleep ==
    /\ pc = "sleep"
    /\ pc' = "tick"
    /\ UNCHANGED <<config, machine, paused, sig, queue, caller, sendErr, history>>

Proceed ==
    /\ pc = "tick"
    /\ elapsed' = tick(current_timer)
    /\ pc' = "while"
    /\ TickHistory
    /\ UNCHANGED <<config, counter, current_status, paused, sig, queue, caller, sendErr>>

NextCycle ==
    /\ pc = "cycle"
    /\ CompletedCycles < horizon
    /\ LET cnt == increment_current_status_counter(current_status)
       IN  /\ ~DivisorIsZero(current_status, cnt)
           /\ counter' = cnt
           /\ current_status' = next_status(current_status, cnt)
           /\ elapsed' = reset(current_timer)
    /\ pc' = AfterCycle
    /\ CycleHistory
    /\ UNCHANGED <<config, paused, sig, queue, caller, sendErr>>

NextCyclePanic ==
    /\ pc = "cycle"
    /\ CompletedCycles < horizon
    /\ LET cnt == increment_current_status_counter(current_status)
       IN  /\ DivisorIsZero(current_status, cnt)
           /\ counter' = cnt
    /\ pc' = "panicked"
    /\ CycleHistory
    /\ UNCHANGED <<config, elapsed, current_status, paused, sig, queue, caller, sendErr>>

AutoPause ==
    /\ pc = "autopause"
    /\ pause
    /\ pc' = "while"
    /\ UNCHANGED <<config, machine, sig, queue, caller, sendErr, history>>

RunReturn ==
    /\ pc = "returned"
    /\ pc' = IF entry = "runtime" THEN "call" ELSE "finished"
    /\ UNCHANGED <<config, machine, paused, sig, queue, caller, sendErr, history>>

\* counter + 1 overflows u8 in a build with overflow checks: the task panics
\* before the count is stored
CounterOverflow ==
    /\ pc = "cycle"
    /\ counter[current_status] = U8Max
    /\ pc' = "panicked"
    /\ UNCHANGED <<config, machine, paused, sig, queue, caller, sendErr, history>>

Runner == Call \/ WhileCheck \/ DoneCheck \/ Sleep \/ Proceed \/ NextCycle
          \/ NextCyclePanic \/ AutoPause \/ RunReturn

----------------------------------------------------------------------------
(* The signal-consuming loops *)

RecvPause ==
    /\ sig = "recv"
    /\ queue # << >>
    /\ Head(queue) = "Pause"
    /\ queue' = Tail(queue)
    /\ pause
    /\ pauseSteps' = IF pc \in InRun /\ pauseSteps < 0 THEN 0 ELSE pauseSteps
    /\ runTicks' = IF pc \in InRun /\ runTicks < 0 THEN 0 ELSE runTicks
    /\ UNCHANGED <<config, machine, pc, sig, caller, sendErr,
                   signalled, cyclesThisRun, timerTicks, lastOp>>

RecvResume_ResetsClock ==
    /\ sig = "recv"
    /\ queue # << >>
    /\ Head(queue) = "Resume"
    /\ queue' = Tail(queue)
    /\ resume
    /\ elapsed' = reset(current_timer)
    /\ pauseSteps' = -1
    /\ runTicks' = -1
    /\ UNCHANGED <<config, counter, current_status, pc, sig, caller, sendErr,
                   signalled, cyclesThisRun, timerTicks, lastOp>>

RecvResume ==
    /\ sig = "recv"
    /\ queue # << >>
    /\ Head(queue) = "Resume"
    /\ queue' = Tail(queue)
    /\ resume
    /\ pauseSteps' = -1
    /\ runTicks' = -1
    /\ UNCHANGED <<config, machine, pc, sig, caller, sendErr,
                   signalled, cyclesThisRun, timerTicks, lastOp>>

RecvAbort_Pauses ==
    /\ entry = "runtime"
    /\ sig = "recv"
    /\ queue # << >>
    /\ Head(queue) = "Abort"
    /\ queue' = << >>
    /\ sig' = "done"
    /\ pause
    /\ UNCHANGED <<config, machine, pc, caller, sendErr, history>>

RecvAbort ==
    /\ entry = "runtime"
    /\ sig = "recv"
    /\ queue # << >>
    /\ Head(queue) = "Abort"
    /\ queue' = << >>
    /\ sig' = "done"
    /\ UNCHANGED <<config, machine, paused, pc, caller, sendErr, history>>

RecvNone ==
    /\ entry = "pomodoro"
    /\ sig = "recv"
    /\ queue = << >>
    /\ caller = "dropped"
    /\ sig' = "done"
    /\ pc' = "call"
    /\ UNCHANGED <<config, machine, paused, queue, caller, sendErr, history>>

SignalTask == RecvPause \/ RecvResume \/ RecvAbort \/ RecvNone

----------------------------------------------------------------------------
(* The caller of start and the Client *)

StartReturn ==
    /\ caller = "awaiting"
    /\ entry = "runtime" => sig = "done"
    /\ caller' = "held"
    /\ UNCHANGED <<config, machine, paused, pc, sig, queue, sendErr, history>>

DropClient ==
    /\ caller = "held"
    /\ caller' = "dropped"
    /\ UNCHANGED <<config, machine, paused, pc, sig, queue, sendErr, history>>

Signals == IF entry = "runtime" THEN RuntimeSignal ELSE PomodoroSignal

send_signal(s) ==
    /\ caller # "dropped"
    /\ sig = "recv"
    /\ Len(queue) < Capacity
    /\ queue' = Append(queue, s)
    /\ signalled' = TRUE
    /\ UNCHANGED <<config, machine, paused, pc, sig, caller, sendErr,
                   pauseSteps, runTicks, cyclesThisRun, timerTicks, lastOp>>

SendClosed ==
    /\ caller # "dropped"
    /\ sig = "done"
    /\ ~sendErr
    /\ sendErr' = TRUE
    /\ UNCHANGED <<config, machine, paused, pc, sig, queue, caller, history>>

ClientPause == "Pause" \in Signals /\ send_signal("Pause")

ClientResume == "Resume" \in Signals /\ send_signal("Resume")

ClientAbort == "Abort" \in Signals /\ send_signal("Abort")

Controller == ClientPause \/ ClientResume \/ ClientAbort \/ SendClosed
              \/ StartReturn \/ DropClient

----------------------------------------------------------------------------
(* Direct calls of the timers' and the machine's methods, as the tests make *)

TimerTick(st) ==
    /\ timerTicks[st] < MaxTicks
    /\ elapsed' = tick(st)
    /\ timerTicks' = [timerTicks EXCEPT ![st] = @ + 1]
    /\ UNCHANGED <<config, counter, current_status, paused, pc, sig, queue, caller,
                   sendErr, signalled, pauseSteps, runTicks, cyclesThisRun, lastOp>>

TimerReset(st) ==
    /\ elapsed' = reset(st)
    /\ timerTicks' = [timerTicks EXCEPT ![st] = 0]
    /\ UNCHANGED <<config, counter, current_status, paused, pc, sig, queue, caller,
                   sendErr, signalled, pauseSteps, runTicks, cyclesThisRun, lastOp>>

TickAny == \E st \in Status : TimerTick(st)

ResetAny == \E st \in Status : TimerReset(st)

ApiResume ==
    /\ resume
    /\ lastOp' = IF ~paused THEN "resume_again" ELSE "resume"
    /\ UNCHANGED <<config, machine, pc, sig, queue, caller, sendErr,
                   signalled, pauseSteps, runTicks, cyclesThisRun, timerTicks>>

ApiPause ==
    /\ pause
    /\ lastOp' = IF paused THEN "pause_again" ELSE "pause"
    /\ UNCHANGED <<config, machine, pc, sig, queue, caller, sendErr,
                   signalled, pauseSteps, runTicks, cyclesThisRun, timerTicks>>

----------------------------------------------------------------------------
(* Construction *)

Untils == {{}} \cup {{n} : n \in 0..MaxUntil}

Fresh ==
    /\ elapsed = [s \in Status |-> initial_duration]
    /\ counter = [s \in Status |-> 0]
    /\ current_status = "Working"
    /\ paused = TRUE
    /\ sig = "recv"
    /\ queue = << >>
    /\ caller = "awaiting"
    /\ sendErr = FALSE
    /\ signalled = FALSE
    /\ pauseSteps = -1
    /\ runTicks = -1
    /\ cyclesThisRun = 0
    /\ timerTicks = [s \in Status |-> 0]
    /\ lastOp = "none"

(* start(pomodoro) of either module, the three timers built alike *)
Init ==
    /\ entry \in Entries
    /\ \E l \in 1..MaxLifespan : lifespan = [s \in Status |-> l]
    /\ \E t \in 1..MaxTick : tick_range = [s \in Status |-> t]
    /\ long_break_interval \in 0..MaxInterval
    /\ continuous \in BOOLEAN
    /\ until \in Untils
    /\ horizon = MaxCycles
    /\ pc = IF entry = "runtime" THEN "call" ELSE "waiting"
    /\ Fresh

(* the advancing task alone, no controller: any lifespans, zero included *)
InitRun ==
    /\ entry = "runtime"
    /\ lifespan \in [Status -> 0..MaxLifespan]
    /\ \E t \in 0..MaxTick : tick_range = [s \in Status |-> t]
    /\ long_break_interval \in 0..MaxInterval
    /\ continuous \in BOOLEAN
    /\ until \in Untils
    /\ horizon = MaxCycles
    /\ pc = "call"
    /\ Fresh

(* the advancing task alone with no cap, followed until the counters wrap *)
InitCounter ==
    /\ entry = "runtime"
    /\ lifespan = [s \in Status |-> 1]
    /\ tick_range = [s \in Status |-> 1]
    /\ long_break_interval \in 0..MaxInterval
    /\ continuous \in BOOLEAN
    /\ until = {}
    /\ horizon = 3 * U8Max + 1
    /\ pc = "call"
    /\ Fresh

(* three timers alone, any lifespan and tick range, zero included *)
InitTimer ==
    /\ entry = "runtime"
    /\ lifespan \in [Status -> 0..MaxLifespan]
    /\ tick_range \in [Status -> 0..MaxTick]
    /\ long_break_interval = MaxInterval
    /\ continuous = TRUE
    /\ until = {}
    /\ horizon = MaxCycles
    /\ pc = "call"
    /\ Fresh

(* the advancing task with another holder of the machine calling pause() and
   resume() on it *)
InitApi ==
    /\ entry = "runtime"
    /\ \E l \in 1..MaxLifespan : lifespan = [s \in Status |-> l]
    /\ \E t \in 1..MaxTick : tick_range = [s \in Status |-> t]
    /\ long_break_interval \in 0..MaxInterval
    /\ continuous \in BOOLEAN
    /\ until \in Untils
    /\ horizon = MaxCycles
    /\ pc = "call"
    /\ Fresh

Next == Runner \/ SignalTask \/ Controller

Spec == Init /\ [][Next]_vars

RunSpec == InitRun /\ [][Runner]_vars

TimerSpec == InitTimer /\ [][TickAny \/ ResetAny]_vars

ApiSpec == InitApi /\ [][Runner \/ ApiResume \/ ApiPause]_vars

CounterSpec == InitCounter /\ [][Runner \/ CounterOverflow]_vars

FairRunSpec == InitRun /\ [][Runner]_vars /\ WF_vars(Runner)

FairSpec ==
    /\ Init
    /\ [][Next]_vars
    /\ WF_vars(Runner)
    /\ WF_vars(SignalTask)
    /\ WF_vars(StartReturn)

----------------------------------------------------------------------------
(* Claims *)

ResumePending == \E i \in 1..Len(queue) : queue[i] = "Resume"

\* C1: start(pomodoro) eventually returns a Client to its caller although no
\* control signal has been sent: in every fair behaviour either start has
\* returned or a signal was sent first.  Stated for a machine with a positive
\* interval and a cap, whose advancing task never comes to a stop.
C1_StartReturnsUnsignalled ==
    (long_break_interval >= 1 /\ until # {})
        => <>(caller # "awaiting" \/ signalled)

\* C2: once a Pause consumed while the advancing loop runs is in effect and
\* no Resume has been sent after it, at most one further tick or counter
\* increment happens, also across re-invocations of run.  Stated for a
\* machine with a positive interval.
C2_PauseStopsProgress ==
    (long_break_interval >= 1 /\ pauseSteps >= 0 /\ ~ResumePending)
        => pauseSteps <= 1

FirstWorkingTick ==
    /\ elapsed["Working"] > 0
    /\ CompletedCycles = 0
    /\ ~signalled
    /\ caller # "dropped"

\* C3: the advancing loop runs concurrently with the signal loop: with a
\* positive interval and a cap other than zero, the first tick of the Working
\* clock eventually happens with the channel open, or else a signal was sent
\* or the sender dropped first.
C3_FirstTickWhileChannelOpen ==
    (long_break_interval >= 1 /\ until # {0})
        => <>(FirstWorkingTick \/ signalled \/ caller = "dropped")

\* C4: with until = n the Working count never exceeds n, and once is_consumed
\* holds no step ticks a clock, increments a counter or changes the phase,
\* under every interleaving of signals and re-invocations of run.
C4_CapRespected ==
    /\ [](\A u \in until : counter["Working"] <= u)
    /\ [][is_consumed => UNCHANGED machine]_vars

C4_Witness ==
    /\ entry = "runtime"
    /\ until = {2}
    /\ is_consumed
    /\ pauseSteps >= 0
    /\ cyclesThisRun = 0
    /\ pc = "returned"

Completed(st) == counter'[st] = counter[st] + 1

\* C5: a step enters LongBreak exactly when it completes a Working phase and
\* the incremented Working count is a positive multiple of
\* long_break_interval; completing a LongBreak or a ShortBreak never leads to
\* LongBreak.
C5_LongBreakExactlyOnInterval ==
    [][ /\ (current_status # "LongBreak" /\ current_status' = "LongBreak")
            <=> /\ Completed("Working")
                /\ long_break_interval > 0
                /\ counter'["Working"] % long_break_interval = 0
        /\ Completed("LongBreak") => current_status' # "LongBreak"
        /\ Completed("ShortBreak") => current_status' # "LongBreak"
      ]_vars

C5_Witness ==
    /\ current_status = "LongBreak"
    /\ long_break_interval = 2
    /\ counter = [s \in Status |-> IF s = "LongBreak" THEN 1 ELSE IF s = "Working" THEN 4 ELSE 2]
    /\ signalled

C7_StepModeOnePhasePerRun ==
    (~continuous /\ until = {} /\ ~signalled)
        => /\ cyclesThisRun <= 1
           /\ pc = "returned" =>
                /\ paused
                /\ cyclesThisRun = 1
                /\ CompletedCycles = 1 =>
                      counter = [s \in Status |-> IF s = "Working" THEN 1 ELSE 0]

C7_Witness ==
    /\ ~continuous
    /\ until = {}
    /\ pc = "returned"
    /\ paused
    /\ CompletedCycles = 3
    /\ cyclesThisRun = 1

PhaseOfFour == <<"Working", "ShortBreak", "Working", "LongBreak">>

\* C8: with long_break_interval = 2 the current phase after c completions is
\* the (c mod 4)-th of Working, ShortBreak, Working, LongBreak; and every
\* phase change goes from Working to a break or from a break to Working.
C8_PhaseSequence ==
    /\ [](long_break_interval = 2 =>
            current_status = PhaseOfFour[(CompletedCycles % 4) + 1])
    /\ [][current_status' # current_status =>
            (current_status = "Working") # (current_status' = "Working")]_vars

C8_Witness ==
    /\ long_break_interval = 2
    /\ CompletedCycles = 7
    /\ current_status = "LongBreak"

\* C9: within one invocation of run, after the signal task has set paused
\* (and nothing has cleared it), at most one more tick is executed.
C9_AtMostOneTickAfterPause == runTicks <= 1

C9_Witness ==
    /\ runTicks = 1
    /\ pc = "returned"
    /\ paused
    /\ ~is_consumed
    /\ continuous

\* C10: no reachable state has evaluated the long-break modulus with a zero
\* interval (construction would have rejected long_break_interval = 0).
C10_ZeroIntervalNeverEvaluated == ~(long_break_interval = 0 /\ pc = "panicked")

\* C11: no step lowers any of the three counts, and every step that leaves
\* next_cycle raises the count of the phase being left by exactly one and
\* leaves the other two alone, for every count a u8 slot can hold.
C11_CountsOnlyGrowByOne ==
    [][ /\ \A s \in Status : counter'[s] >= counter[s]
        /\ (pc = "cycle" /\ pc' # "cycle")
              => counter' = [counter EXCEPT ![current_status] = @ + 1]
      ]_vars

Ceil(l, t) == (l + t - 1) \div t

C13_PauseResumeIdempotent ==
    [][ ((ApiResume /\ ~paused) \/ (ApiPause /\ paused))
            => UNCHANGED <<paused, machine, pc>> ]_vars

C13_Witness ==
    /\ lastOp = "resume_again"
    /\ ~paused
    /\ pc = "tick"
    /\ counter["Working"] = 1
    /\ current_status = "ShortBreak"

\* C14: processing a Pause or a Resume signal leaves phase, counts, every
\* clock's elapsed value and the advancing loop's position unchanged, and no
\* step other than next_cycle ever lowers a clock, so the loop goes on from
\* the values it had when the Pause arrived.
C14_PauseResumeOnlyFlag ==
    [][ /\ (RecvPause \/ RecvResume) => UNCHANGED <<machine, config, pc>>
        /\ (\E s \in Status : elapsed'[s] < elapsed[s]) => pc = "cycle"
      ]_vars

C14_Witness ==
    /\ pauseSteps = 0
    /\ paused
    /\ queue # << >>
    /\ Head(queue) = "Resume"
    /\ current_status = "ShortBreak"
    /\ counter["Working"] = 1
    /\ elapsed["ShortBreak"] > 0
    /\ ~is_done("ShortBreak")

LoopBlocked == pc = "panicked" \/ (pc = "cycle" /\ CompletedCycles >= horizon)

\* C15: processing Abort changes neither flag, phase, counts, clocks nor the
\* advancing loop's position; once the signal task has ended the channel stays
\* closed and empty, the flag changes only by the loop's own resume() at the
\* start of run and pause() in step mode, and the loop can still take a step.
C15_AbortOnlyEndsSignalTask ==
    [][ /\ RecvAbort => UNCHANGED <<paused, machine, pc>>
        /\ (entry = "runtime" /\ sig = "done")
              => /\ sig' = "done"
                 /\ queue' = << >>
                 /\ paused' # paused => pc \in {"call", "autopause"}
                 /\ ~LoopBlocked => ENABLED Runner
      ]_vars

C15_Witness ==
    /\ entry = "runtime"
    /\ sig = "done"
    /\ sendErr
    /\ ~paused
    /\ pc = "tick"
    /\ CompletedCycles >= 1

C17_OtherClocksFresh ==
    \A s \in Status : s # current_status => elapsed[s] = initial_duration

C17_Witness ==
    /\ current_status = "ShortBreak"
    /\ elapsed["ShortBreak"] > 0
    /\ counter["Working"] = 1
    /\ paused
    /\ pauseSteps >= 0

\* C18: a count changes only in next_cycle, only when the clock of the current
\* phase has elapsed >= lifespan, and (for a positive long-break interval)
\* together with a change of the current phase to a different phase.
C18_IncrementOnlyWhenDone ==
    [][ counter' # counter
            => /\ pc = "cycle"
               /\ elapsed[current_status] >= lifespan[current_status]
               /\ long_break_interval >= 1 => current_status' # current_status
      ]_vars

C18_Witness ==
    /\ signalled
    /\ pauseSteps >= 1
    /\ counter["Working"] = 1
    /\ counter["ShortBreak"] = 1
    /\ current_status = "Working"

\* C19 as stated: every clock's elapsed is strictly below lifespan + tick range.
C19_ElapsedBelowLifespanPlusTick ==
    \A s \in Status : elapsed[s] < lifespan[s] + tick_range[s]

\* C19 amended: the strict bound holds for every clock whose lifespan and tick
\* range are not both zero, a clock with both zero stays at zero, and the
\* runner is about to tick a clock only if that clock is not done.
C19_ElapsedBoundNonZeroClock ==
    /\ \A s \in Status :
          IF lifespan[s] + tick_range[s] > 0
          THEN elapsed[s] < lifespan[s] + tick_range[s]
          ELSE elapsed[s] = 0
    /\ pc \in {"sleep", "tick"} => ~is_done(current_timer)

C19_Witness ==
    /\ lifespan = [s \in Status |-> 0]
    /\ tick_range = [s \in Status |-> 0]
    /\ counter["Working"] = 2
    /\ counter["ShortBreak"] = 1
    /\ current_status = "LongBreak"

====
